---- MODULE Spec2Model ----
(***************************************************************************)
(* nextgisweb: the field serializer of feature layers                      *)
(* (feature_layer/model.py, _fields_attr over LayerFieldsMixin.fields, an  *)
(* ordering_list('idx') relationship) and the application bootstrapper     *)
(* (pyramidcomp.py, PyramidComponent.make_app).                            *)
(***************************************************************************)
EXTENDS Integers, Sequences, FiniteSets, TLC

\* ---------------------------------------------------------------- bounds
\* LayerField objects constructed in one run
MaxObjs == 2
\* entries in one submitted payload
MaxLen == 2
\* components registered in the environment
MaxComps == 2

\* ---------------------------------------------------------------- values
\* Python's None as a column value
None == "None"
\* a key that is not in a payload dict
Absent == "absent"
\* None as an object reference (feature_label_field, a field not yet made)
NoFld == 0
\* None as LayerField.id: the object is pending, no primary key yet
NoId == 0
\* None as LayerField.idx
NoIdx == -1

Layers == {"layer1", "layer2"}

Range(s) == {s[i] : i \in DOMAIN s}

VARIABLES
    flds,                 \* every LayerField object made so far, by identity
    fields,               \* layer -> obj.fields, a list of identities
    feature_label_field,  \* layer -> obj.feature_label_field
    srlzr,                \* the serializer call that ran last, until it returns
    pc,                   \* make_app: the statement to run next
    settings,             \* make_app: the merged settings
    config,               \* make_app: the calls made on the Configurator
    sys_stdout,           \* make_app: what sys.stdout is bound to
    static_key,           \* make_app: the cache-busting key
    exc,                  \* make_app: the exception that ended it
    components,           \* env._components, in registration order
    self_settings,        \* PyramidComponent._settings
    hook                  \* make_app: position in the component loops

modelvars == <<flds, fields, feature_label_field, srlzr>>
appvars == <<pc, settings, config, sys_stdout, static_key, exc, components,
             self_settings, hook>>
vars == <<flds, fields, feature_label_field, srlzr, pc, settings, config,
          sys_stdout, static_key, exc, components, self_settings, hook>>

\* ------------------------------------------------------------ LayerField
\* LayerField(datatype=...): every other column is None until set
LayerField(datatype) ==
    [id |-> NoId, idx |-> NoIdx, keyname |-> None, datatype |-> datatype,
     display_name |-> None, grid_visibility |-> None]

\* Python truth of an id: None and 0 are both false
Truthy(fldid) == fldid # NoId

\* Python truth of fld.get('label_field', False)
LabelFlag(fld) == fld.label_field = "True"

\* ---------------------------------------------- ordering_list('idx')
\* OrderingList._order_entity with count_from_0: index is 0-based
OrderEntity(f, index, entity, reorder) ==
    IF f[entity].idx # NoIdx /\ ~reorder
    THEN f
    ELSE [f EXCEPT ![entity].idx = index]

RECURSIVE ReorderFrom(_, _, _)
ReorderFrom(f, coll, i) ==
    IF i > Len(coll)
    THEN f
    ELSE ReorderFrom(OrderEntity(f, i - 1, coll[i], TRUE), coll, i + 1)

\* obj.fields.reorder(): every entity gets its position, first to last
reorder(f, coll) == ReorderFrom(f, coll, 1)

RemoveAt(coll, i) ==
    [j \in 1..(Len(coll) - 1) |-> IF j < i THEN coll[j] ELSE coll[j + 1]]

\* obj.fields.pop(idx): list.pop, then the rest is reordered
pop(st, i) ==
    LET rest == RemoveAt(st.coll, i)
    IN  [st EXCEPT !.coll = rest, !.flds = reorder(st.flds, rest)]

\* obj.fields.append(mfld): reorder_on_append is off, an idx already set stays
append(st, mfld) ==
    [st EXCEPT !.coll = Append(st.coll, mfld),
               !.flds = OrderEntity(st.flds, Len(st.coll), mfld, FALSE)]

\* ------------------------------------------------------ _fields_attr
\* getter: one summary per field of obj.fields, in order
getter(f, coll, label) ==
    [i \in 1..Len(coll) |->
        [id |-> f[coll[i]].id,
         keyname |-> f[coll[i]].keyname,
         datatype |-> f[coll[i]].datatype,
         typemod |-> None,
         display_name |-> f[coll[i]].display_name,
         label_field |-> IF coll[i] = label THEN "True" ELSE "False",
         grid_visibility |-> f[coll[i]].grid_visibility]]

\* fldmap[fld.id] = fld
MapPut(fldmap, fldid, fld) ==
    [k \in (DOMAIN fldmap) \cup {fldid} |-> IF k = fldid THEN fld ELSE fldmap[k]]

\* a variant of HasId: every field of the collection is collected
HasIdAlways(f, fld) == TRUE

\* the test of line 122: only a field that has an id is collected
HasId(f, fld) == Truthy(f[fld].id)

\* the loop of lines 121-124 over a copy of obj.fields, last position first
RECURSIVE PopExisting(_, _, _)
PopExisting(st, snapshot, i) ==
    IF i = 0
    THEN st
    ELSE IF HasId(st.flds, snapshot[i])
         THEN PopExisting(
                  pop([st EXCEPT !.fldmap =
                          MapPut(@, st.flds[snapshot[i]].id, snapshot[i])], i),
                  snapshot, i - 1)
         ELSE PopExisting(st, snapshot, i - 1)

\* a variant of ClearLabel: the reference is not reset
KeepLabel(label) == label

\* line 126: obj.feature_label_field = None
ClearLabel(label) == NoFld

\* a variant of Resolve: an id that is not found makes a new field
ResolveLenient(fldmap, fld) ==
    IF Truthy(fld.id) /\ fld.id \in DOMAIN fldmap THEN "found" ELSE "new"

\* lines 129-137: what an entry resolves to
Resolve(fldmap, fld) ==
    IF Truthy(fld.id)
    THEN IF fld.id \in DOMAIN fldmap THEN "found" ELSE "ValidationError"
    ELSE "new"

\* a variant of UpdateField: datatype is assigned like the other keys
UpdateFieldAndDatatype(mfld, fld) ==
    [mfld EXCEPT
        !.keyname = IF fld.keyname # Absent THEN fld.keyname ELSE @,
        !.datatype = IF fld.datatype # Absent THEN fld.datatype ELSE @,
        !.display_name = IF fld.display_name # Absent THEN fld.display_name ELSE @,
        !.grid_visibility =
            IF fld.grid_visibility # Absent THEN fld.grid_visibility ELSE @]

\* lines 139-144: only the keys present in the entry are assigned
UpdateField(mfld, fld) ==
    [mfld EXCEPT
        !.keyname = IF fld.keyname # Absent THEN fld.keyname ELSE @,
        !.display_name = IF fld.display_name # Absent THEN fld.display_name ELSE @,
        !.grid_visibility =
            IF fld.grid_visibility # Absent THEN fld.grid_visibility ELSE @]

\* a variant of SetLabel: the flag of the entry is not looked at
SetLabelAlways(label, fld, mfld) == mfld

\* lines 146-147
SetLabel(label, fld, mfld) == IF LabelFlag(fld) THEN mfld ELSE label

\* one turn of the loop of lines 128-149
ApplyEntry(st, fld) ==
    LET how == Resolve(st.fldmap, fld)
    IN  IF how = "ValidationError"
        THEN [st EXCEPT !.raised = TRUE]
        ELSE LET made == IF how = "new"
                         THEN Append(st.flds, LayerField(fld.datatype))
                         ELSE st.flds
                 mfld == IF how = "new" THEN Len(made) ELSE st.fldmap[fld.id]
                 upd  == [made EXCEPT ![mfld] = UpdateField(@, fld)]
             IN  append([st EXCEPT !.flds = upd,
                                   !.label = SetLabel(@, fld, mfld)], mfld)

RECURSIVE ApplyEntries(_, _, _)
ApplyEntries(st, value, i) ==
    IF i > Len(value) \/ st.raised
    THEN st
    ELSE ApplyEntries(ApplyEntry(st, value[i]), value, i + 1)

\* setter: the whole of lines 117-151; the raise leaves what was done so far
setter(f, coll, label, value) ==
    LET st0 == [flds |-> f, coll |-> coll, label |-> label,
                fldmap |-> <<>>, raised |-> FALSE]
        st1 == PopExisting(st0, coll, Len(coll))
        st2 == [st1 EXCEPT !.label = ClearLabel(@)]
        st3 == ApplyEntries(st2, value, 1)
    IN  IF st3.raised
        THEN st3
        ELSE [st3 EXCEPT !.flds = reorder(st3.flds, st3.coll)]

\* ------------------------------------------------------------ payloads
\* ids a client may submit
FldIds == {1, 2}

Entry(id, keyname, datatype, display_name, label_field, grid_visibility) ==
    [id |-> id, keyname |-> keyname, datatype |-> datatype, typemod |-> Absent,
     display_name |-> display_name, label_field |-> label_field,
     grid_visibility |-> grid_visibility]

\* descriptors without an id (datatype is required, fld['datatype']):
\* plain, or marked as the label field
NewEntries ==
    { Entry(NoId, "a", "STRING", "A", Absent, Absent),
      Entry(NoId, "a", "STRING", "A", "True", Absent) }

\* descriptors with an id: the bare id, and for the first id handed out one
\* that renames, hides and marks as label, carrying a datatype other than
\* the field's
IdEntries ==
    { Entry(i, Absent, Absent, Absent, Absent, Absent) : i \in FldIds }
    \cup { Entry(1, "c", "INTEGER", Absent, "True", "False") }

Entries == NewEntries \cup IdEntries

Payloads == UNION { [1..n -> Entries] : n \in 0..MaxLen }

\* the layer the requests of Spec go to
Served == "layer1"

\* ------------------------------------------------------------- actions
Idle == [op |-> "idle"]

\* the state the setter is applied to and leaves, for one layer
Call(op, obj, value) ==
    LET r == setter(flds, fields[obj], feature_label_field[obj], value)
    IN  /\ srlzr.op = "idle"
        /\ Len(r.flds) <= MaxObjs
        /\ flds' = r.flds
        /\ fields' = [fields EXCEPT ![obj] = r.coll]
        /\ feature_label_field' = [feature_label_field EXCEPT ![obj] = r.label]
        /\ srlzr' = [op |-> op, obj |-> obj, value |-> value,
                     raised |-> r.raised,
                     pre |-> [flds |-> flds, fields |-> fields[obj],
                              label |-> feature_label_field[obj]]]
        /\ UNCHANGED appvars

\* FeatureLayerSerializer.fields written with a submitted payload
Write ==
    \E value \in Payloads : Call("write", Served, value)

\* FeatureLayerSerializer.fields read, and the result written back
RoundTrip ==
    Call("roundtrip", Served,
         getter(flds, fields[Served], feature_label_field[Served]))

\* the serializer call is over: ValidationError or normal return
Return ==
    /\ srlzr.op # "idle"
    /\ srlzr' = Idle
    /\ UNCHANGED <<flds, fields, feature_label_field>>
    /\ UNCHANGED appvars

Pending == {f \in DOMAIN flds : flds[f].id = NoId}

MaxOf(S) == IF S = {} THEN 0 ELSE CHOOSE m \in S : \A n \in S : n <= m

\* the primary keys handed out so far end here
LastId == MaxOf({flds[f].id : f \in DOMAIN flds})

\* how many pending objects were made before f, f included
Rank(f) == Cardinality({g \in Pending : g <= f})

\* INSERT of one pending LayerField: id from the sequence, column defaults
Inserted(f) ==
    [flds[f] EXCEPT
        !.id = LastId + Rank(f),
        !.grid_visibility = IF @ = None THEN "True" ELSE @]

\* session.flush(): pending fields are inserted in the order they were made;
\* keyname and display_name are NOT NULL
Flush ==
    /\ srlzr.op = "idle"
    /\ Pending # {}
    /\ \A f \in Pending : flds[f].keyname # None /\ flds[f].display_name # None
    /\ flds' = [f \in DOMAIN flds |->
                   IF f \in Pending THEN Inserted(f) ELSE flds[f]]
    /\ UNCHANGED <<fields, feature_label_field, srlzr>>
    /\ UNCHANGED appvars

InitModel ==
    /\ flds = <<>>
    /\ fields = [obj \in Layers |-> <<>>]
    /\ feature_label_field = [obj \in Layers |-> NoFld]
    /\ srlzr = Idle

\* ------------------------------------------------- PyramidComponent
EmptyDict == [k \in {} |-> ""]

\* the component's own settings, self._settings
SelfSettings == {EmptyDict, [secret |-> "s1"]}

\* the settings a caller passes to make_app
ArgSettings ==
    {EmptyDict, [secret |-> "s2"], [k \in {"mako.directories"} |-> "custom"]}

\* component identities that may be registered
Identities == {"core", "auth", "resource"}

\* what pip freeze may print, and its md5 hexdigest
FreezeOutputs == {"pyramid==1.4", "pyramid==1.5"}

md5(text) == IF text = "pyramid==1.4" THEN "9e1" ELSE "c47"

\* '/' + h.hexdigest()
KeyOf(digest) == IF digest = "9e1" THEN "/9e1" ELSE "/c47"

\* dict(a, **b): the keys of both, b's value where both have the key
Merged(a, b) ==
    [k \in (DOMAIN a) \cup (DOMAIN b) |-> IF k \in DOMAIN b THEN b[k] ELSE a[k]]

\* d[key] = v
Put(d, key, v) == [k \in (DOMAIN d) \cup {key} |-> IF k = key THEN v ELSE d[k]]

\* one call on the Configurator
Made(call, arg) == [call |-> call, arg |-> arg]

\* a variant of HasSecret: the assertion always passes
SecretAssumed(s) == TRUE

\* line 31: 'secret' in settings
HasSecret(s) == "secret" \in DOMAIN s

\* env.chain('setup_pyramid'): the components in registration order
chain(comps) == comps

\* env._components.itervalues(): the components in registration order
itervalues(comps) == comps

\* line 70: comp.setup_pyramid(config)
PyramidHook(comp) == Made("setup_pyramid", comp)

\* a variant of RoutesHook: the call of the line commented out above it
RoutesHookAsPyramid(comp) == Made("setup_pyramid", comp)

\* line 75: comp.__class__.setup_routes(config)
RoutesHook(comp) == Made("setup_routes", comp)

appframe == <<components, self_settings>>

\* Component.registry.register and the environment's instantiation of it
Register ==
    /\ pc = "idle"
    /\ Len(components) < MaxComps
    /\ \E c \in Identities \ Range(components) :
          components' = Append(components, c)
    /\ UNCHANGED <<pc, settings, config, sys_stdout, static_key, exc,
                   self_settings, hook>>
    /\ UNCHANGED modelvars

\* make_app(settings): lines 19-22
make_app ==
    /\ pc = "idle"
    /\ \E arg \in ArgSettings :
          settings' = Put(Merged(self_settings, arg), "mako.directories",
                          "nextgisweb:templates/")
    /\ pc' = "Configurator"
    /\ UNCHANGED <<config, sys_stdout, static_key, exc, hook>>
    /\ UNCHANGED appframe /\ UNCHANGED modelvars

\* make_app() with the default settings=None: dict(d, **None) is a TypeError
make_app_default ==
    /\ pc = "idle"
    /\ pc' = "raised"
    /\ exc' = "TypeError"
    /\ UNCHANGED <<settings, config, sys_stdout, static_key, hook>>
    /\ UNCHANGED appframe /\ UNCHANGED modelvars

\* lines 24-29
new_configurator ==
    /\ pc = "Configurator"
    /\ config' = <<Made("Configurator", "settings"),
                   Made("set_request_property", "env"),
                   Made("include", "pyramid_tm")>>
    /\ pc' = "assert"
    /\ UNCHANGED <<settings, sys_stdout, static_key, exc, hook>>
    /\ UNCHANGED appframe /\ UNCHANGED modelvars

\* line 31
assert_secret ==
    /\ pc = "assert"
    /\ IF HasSecret(settings)
       THEN pc' = "authn" /\ exc' = exc
       ELSE pc' = "raised" /\ exc' = "AssertionError"
    /\ UNCHANGED <<settings, config, sys_stdout, static_key, hook>>
    /\ UNCHANGED appframe /\ UNCHANGED modelvars

\* lines 32-33: settings['secret'] is a KeyError when the key is missing
set_authentication_policy ==
    /\ pc = "authn"
    /\ IF "secret" \in DOMAIN settings
       THEN /\ config' = Append(config, Made("set_authentication_policy",
                                             settings["secret"]))
            /\ pc' = "authz"
            /\ exc' = exc
       ELSE /\ config' = config
            /\ pc' = "raised"
            /\ exc' = "KeyError"
    /\ UNCHANGED <<settings, sys_stdout, static_key, hook>>
    /\ UNCHANGED appframe /\ UNCHANGED modelvars

\* lines 35-36
set_authorization_policy ==
    /\ pc = "authz"
    /\ config' = Append(config, Made("set_authorization_policy", "ACL"))
    /\ pc' = "home"
    /\ UNCHANGED <<settings, sys_stdout, static_key, exc, hook>>
    /\ UNCHANGED appframe /\ UNCHANGED modelvars

\* line 38
add_route_home ==
    /\ pc = "home"
    /\ config' = Append(config, Made("add_route", "home"))
    /\ pc' = "import"
    /\ UNCHANGED <<settings, sys_stdout, static_key, exc, hook>>
    /\ UNCHANGED appframe /\ UNCHANGED modelvars

\* lines 51-57: pip is imported and sys.stdout set to the buffer
import_pip ==
    /\ pc = "import"
    /\ sys_stdout' = "buf"
    /\ pc' = "freeze"
    /\ UNCHANGED <<settings, config, static_key, exc, hook>>
    /\ UNCHANGED appframe /\ UNCHANGED modelvars

\* line 55 when pip is not installed
import_pip_fails ==
    /\ pc = "import"
    /\ exc' = "ImportError"
    /\ pc' = "finally"
    /\ UNCHANGED <<settings, config, sys_stdout, static_key, hook>>
    /\ UNCHANGED appframe /\ UNCHANGED modelvars

\* lines 58-61
pip_freeze ==
    /\ pc = "freeze"
    /\ \E out \in FreezeOutputs : static_key' = KeyOf(md5(out))
    /\ pc' = "finally"
    /\ UNCHANGED <<settings, config, sys_stdout, exc, hook>>
    /\ UNCHANGED appframe /\ UNCHANGED modelvars

\* lines 63-64: sys.stdout is restored, a pending exception goes on
finally ==
    /\ pc = "finally"
    /\ sys_stdout' = "stdout"
    /\ pc' = IF exc = None THEN "static" ELSE "raised"
    /\ UNCHANGED <<settings, config, static_key, exc, hook>>
    /\ UNCHANGED appframe /\ UNCHANGED modelvars

\* lines 66-67
add_static ==
    /\ pc = "static"
    /\ config' = config \o <<Made("add_static_view", static_key),
                             Made("add_route", "amd_package")>>
    /\ pc' = "setup_pyramid"
    /\ hook' = 1
    /\ UNCHANGED <<settings, sys_stdout, static_key, exc>>
    /\ UNCHANGED appframe /\ UNCHANGED modelvars

\* lines 69-70: one turn of the loop, or its end
setup_pyramid ==
    /\ pc = "setup_pyramid"
    /\ IF hook <= Len(chain(components))
       THEN /\ config' = Append(config, PyramidHook(chain(components)[hook]))
            /\ hook' = hook + 1
            /\ pc' = pc
       ELSE /\ config' = config
            /\ hook' = 1
            /\ pc' = "setup_routes"
    /\ UNCHANGED <<settings, sys_stdout, static_key, exc>>
    /\ UNCHANGED appframe /\ UNCHANGED modelvars

\* lines 73-75: one turn of the loop, or its end
setup_routes ==
    /\ pc = "setup_routes"
    /\ IF hook <= Len(itervalues(components))
       THEN /\ config' = Append(config,
                                RoutesHook(itervalues(components)[hook]))
            /\ hook' = hook + 1
            /\ pc' = pc
       ELSE /\ config' = config
            /\ hook' = hook
            /\ pc' = "scan"
    /\ UNCHANGED <<settings, sys_stdout, static_key, exc>>
    /\ UNCHANGED appframe /\ UNCHANGED modelvars

\* lines 77-79
scan ==
    /\ pc = "scan"
    /\ config' = Append(config, Made("scan", "nextgisweb"))
    /\ pc' = "done"
    /\ UNCHANGED <<settings, sys_stdout, static_key, exc, hook>>
    /\ UNCHANGED appframe /\ UNCHANGED modelvars

AppIdle ==
    /\ pc = "idle"
    /\ settings = EmptyDict
    /\ config = <<>>
    /\ sys_stdout = "stdout"
    /\ static_key = ""
    /\ exc = None
    /\ components = <<>>
    /\ hook = 0

\* the serializer's specification: the bootstrapper has not been started
Init == InitModel /\ AppIdle /\ self_settings = EmptyDict

Next == Write \/ RoundTrip \/ Return \/ Flush

Spec == Init /\ [][Next]_vars

\* requests to either layer, with fewer kinds of entry: a new field marked
\* as label, and for the first id handed out the bare id and the labelled
\* rename
LayerEntries ==
    { Entry(NoId, "a", "STRING", "A", "True", Absent),
      Entry(1, Absent, Absent, Absent, Absent, Absent),
      Entry(1, "c", "INTEGER", Absent, "True", "False") }

LayerPayloads == UNION { [1..n -> LayerEntries] : n \in 0..MaxLen }

WriteLayer ==
    \E obj \in Layers, value \in LayerPayloads : Call("write", obj, value)

RoundTripLayer ==
    \E obj \in Layers :
        Call("roundtrip", obj,
             getter(flds, fields[obj], feature_label_field[obj]))

NextLayers == WriteLayer \/ RoundTripLayer \/ Return \/ Flush

\* the serializer's specification with both layers written
SpecLayers == Init /\ [][NextLayers]_vars

\* the bootstrapper's specification: no layer is written
InitApp == InitModel /\ AppIdle /\ self_settings \in SelfSettings

NextApp ==
    \/ Register
    \/ make_app
    \/ make_app_default
    \/ new_configurator
    \/ assert_secret
    \/ set_authentication_policy
    \/ set_authorization_policy
    \/ add_route_home
    \/ import_pip
    \/ import_pip_fails
    \/ pip_freeze
    \/ finally
    \/ add_static
    \/ setup_pyramid
    \/ setup_routes
    \/ scan

SpecApp == InitApp /\ [][NextApp]_vars

\* ------------------------------------------------- the call that ran last
Called == srlzr.op \in {"write", "roundtrip"}
Succeeded == Called /\ ~srlzr.raised
Raised == Called /\ srlzr.raised

\* the ids of the fields the layer owned when the call began
PreIds == {srlzr.pre.flds[f].id : f \in Range(srlzr.pre.fields)} \ {NoId}

\* the entries that name an id the layer did not own
Offending ==
    {i \in DOMAIN srlzr.value :
        Truthy(srlzr.value[i].id) /\ srlzr.value[i].id \notin PreIds}

MinOf(S) == CHOOSE m \in S : \A n \in S : m <= n

\* the entries ahead of the first offending one
Ahead ==
    IF Offending = {} THEN DOMAIN srlzr.value ELSE 1..(MinOf(Offending) - 1)

\* the field entry i of Ahead stands for: the owned field of that id, or the
\* next object made
Target(i) ==
    IF Truthy(srlzr.value[i].id)
    THEN CHOOSE f \in Range(srlzr.pre.fields) :
             srlzr.pre.flds[f].id = srlzr.value[i].id
    ELSE Len(srlzr.pre.flds)
         + Cardinality({j \in 1..i : ~Truthy(srlzr.value[j].id)})

Labelled == {i \in DOMAIN srlzr.value : LabelFlag(srlzr.value[i])}

Props == {"keyname", "display_name", "grid_visibility"}

\* the entries of Ahead that carry key p for field f
Carrying(f, p) == {i \in Ahead : Target(i) = f /\ srlzr.value[i][p] # Absent}

IsPendingBefore(f) == srlzr.pre.flds[f].id = NoId

\* ---------------------------------------------------------------- claims
\* C1: a write raises ValidationError exactly when its payload has an entry
\* whose non-empty id is not the id of a field the layer owns, in every
\* state that writes and flushes lead to.
C1_ValidationErrorIffUnknownId ==
    Called => (srlzr.raised <=> Offending # {})

\* C1: a write was refused for an unknown id that followed an entry naming
\* an owned field
C1_Witness ==
    /\ srlzr.op = "write"
    /\ srlzr.raised
    /\ Len(srlzr.value) = 2
    /\ srlzr.value[1].id \in PreIds
    /\ 2 \in Offending

\* C2 (as stated): after a successful write the collection is exactly the
\* submitted entries in order: the owned field for an entry with an id, a
\* new field for an entry without, and no field that was not referenced.
C2_CollectionIsPayload ==
    Succeeded =>
        /\ Len(fields[srlzr.obj]) = Len(srlzr.value)
        /\ \A i \in DOMAIN srlzr.value :
              /\ fields[srlzr.obj][i] = Target(i)
              /\ ~Truthy(srlzr.value[i].id)
                    => fields[srlzr.obj][i] > Len(srlzr.pre.flds)
        /\ \A f \in Range(srlzr.pre.fields) :
              (\A i \in DOMAIN srlzr.value : srlzr.value[i].id = NoId
                   \/ srlzr.value[i].id # srlzr.pre.flds[f].id)
                  => f \notin Range(fields[srlzr.obj])

\* C3 (as stated): after a successful write the idx values of the owned
\* fields are 0..n-1 without repeats and entry i's field has the i-th idx.
C3_IdxIsSubmissionOrder ==
    Succeeded =>
        /\ {flds[f].idx : f \in Range(fields[srlzr.obj])}
               = 0..(Cardinality(Range(fields[srlzr.obj])) - 1)
        /\ \A i \in DOMAIN srlzr.value : flds[Target(i)].idx = i - 1

\* C4 (as stated): writing back what the getter returned leaves the fields,
\* their columns, their order and idx, and the label field as they were.
C4_RoundTripIdentity ==
    srlzr.op = "roundtrip" =>
        /\ ~srlzr.raised
        /\ fields[srlzr.obj] = srlzr.pre.fields
        /\ flds = srlzr.pre.flds
        /\ feature_label_field[srlzr.obj] = srlzr.pre.label

\* C5: after a successful write with exactly one entry marked label_field
\* the label field is that entry's field; with none marked it is empty.
C5_LabelField ==
    Succeeded =>
        /\ Cardinality(Labelled) = 1 =>
              \A i \in Labelled : feature_label_field[srlzr.obj] = Target(i)
        /\ Labelled = {} => feature_label_field[srlzr.obj] = NoFld

\* C5: the label moved from one owned field to another by a two-entry write
C5_Witness ==
    /\ Succeeded
    /\ Len(srlzr.value) = 2
    /\ Cardinality(Labelled) = 1
    /\ srlzr.pre.label # NoFld
    /\ feature_label_field[srlzr.obj] # srlzr.pre.label
    /\ feature_label_field[srlzr.obj] \in Range(srlzr.pre.fields)

\* C6: in every state the label field of a layer is empty or a member of
\* that layer's own fields collection.
C6_LabelIsOwned ==
    \A obj \in Layers :
        \/ feature_label_field[obj] = NoFld
        \/ feature_label_field[obj] \in Range(fields[obj])

\* C6: a call dropped the field that was the label field before it
C6_Witness ==
    /\ Called
    /\ srlzr.pre.label # NoFld
    /\ srlzr.pre.label \notin Range(fields[srlzr.obj])

\* C9 (as stated): a write that raises leaves the collection, the columns of
\* every field and the label field as they were before it.
C9_RaiseLeavesLayerUntouched ==
    Raised =>
        /\ fields[srlzr.obj] = srlzr.pre.fields
        /\ feature_label_field[srlzr.obj] = srlzr.pre.label
        /\ \A f \in DOMAIN srlzr.pre.flds, p \in Props :
              flds[f][p] = srlzr.pre.flds[f][p]

\* C9 (amended): a write that raises is not undone by the setter. It leaves
\* in the collection the fields that had no id, then the fields of the
\* entries ahead of the offending one; the label field is empty or the
\* field of the last such entry marked label_field; and a column changes
\* only on a field that such an entry names.
C9_RaiseLeavesPartialWrite ==
    Raised =>
        LET kept == SelectSeq(srlzr.pre.fields, IsPendingBefore)
            coll == fields[srlzr.obj]
            marked == Labelled \cap Ahead
        IN  /\ Len(coll) = Len(kept) + Cardinality(Ahead)
            /\ \A j \in 1..Len(kept) : coll[j] = kept[j]
            /\ \A i \in Ahead : coll[Len(kept) + i] = Target(i)
            /\ feature_label_field[srlzr.obj] =
                   IF marked = {} THEN NoFld ELSE Target(MaxOf(marked))
            /\ \A f \in DOMAIN srlzr.pre.flds, p \in Props :
                  Carrying(f, p) = {} => flds[f][p] = srlzr.pre.flds[f][p]

\* C9: a write raised on its second entry after the first had renamed a
\* field and the layer had a label field
C9_Witness ==
    /\ Raised
    /\ Ahead = {1}
    /\ srlzr.pre.label # NoFld
    /\ Truthy(srlzr.value[1].id)
    /\ flds[Target(1)].keyname # srlzr.pre.flds[Target(1)].keyname
    /\ fields[srlzr.obj] # srlzr.pre.fields

\* C10: a write changes of keyname, display_name and grid_visibility of an
\* existing field only those whose key an entry for it carries (the last
\* such entry decides); id and datatype of an existing field never change,
\* whatever datatype the entry carries; a new field has its entry's datatype.
C10_OnlyPresentKeysChange ==
    Called =>
        /\ \A f \in DOMAIN srlzr.pre.flds :
              /\ flds[f].id = srlzr.pre.flds[f].id
              /\ flds[f].datatype = srlzr.pre.flds[f].datatype
              /\ \A p \in Props :
                    LET carrying == Carrying(f, p)
                    IN  flds[f][p] =
                            IF carrying = {}
                            THEN srlzr.pre.flds[f][p]
                            ELSE srlzr.value[MaxOf(carrying)][p]
        /\ \A i \in Ahead :
              ~Truthy(srlzr.value[i].id)
                  => flds[Target(i)].datatype = srlzr.value[i].datatype

\* C10: an entry renamed and hid an existing field, carried no display_name
\* and another datatype than the field's
C10_Witness ==
    /\ Succeeded
    /\ \E i \in DOMAIN srlzr.value :
          /\ Truthy(srlzr.value[i].id)
          /\ srlzr.value[i].keyname # Absent
          /\ srlzr.value[i].display_name = Absent
          /\ srlzr.value[i].datatype \notin {Absent, flds[Target(i)].datatype}
          /\ flds[Target(i)].keyname # srlzr.pre.flds[Target(i)].keyname
          /\ flds[Target(i)].display_name # None

\* --------------------------------------------------- make_app's claims
Calls == {config[i].call : i \in DOMAIN config}

IsPyramidCall(c) == c.call = "setup_pyramid"

IsRoutesCall(c) == c.call = "setup_routes"

ArgsOf(calls) == [i \in DOMAIN calls |-> calls[i].arg]

\* C7: once make_app is past its assertion with merged settings that have
\* no 'secret', it has ended with an AssertionError, and by then no policy is
\* set, no route or static view added, no package hash computed (sys.stdout
\* never redirected) and no component hook called.
C7_MissingSecretFailsFast ==
    (/\ pc \notin {"idle", "Configurator", "assert"}
     /\ exc # "TypeError"
     /\ "secret" \notin DOMAIN settings)
        => /\ pc = "raised"
           /\ exc = "AssertionError"
           /\ Calls \cap {"set_authentication_policy",
                          "set_authorization_policy", "add_route",
                          "add_static_view", "setup_pyramid", "setup_routes",
                          "scan"} = {}
           /\ static_key = ""
           /\ sys_stdout = "stdout"

\* C7: make_app failed its assertion with components registered, neither
\* the component nor the caller having given a secret
C7_Witness ==
    /\ pc = "raised"
    /\ exc = "AssertionError"
    /\ "secret" \notin DOMAIN settings
    /\ Len(components) > 0

\* C8: a make_app that returned has called setup_pyramid once and
\* setup_routes once per registered component, each pass in registration
\* order; and every hook call comes after the authentication policy, the
\* authorization policy and the static routes, and before config.scan().
C8_HooksOncePerComponentInOrder ==
    /\ pc = "done" =>
          /\ ArgsOf(SelectSeq(config, IsPyramidCall)) = components
          /\ ArgsOf(SelectSeq(config, IsRoutesCall)) = components
          /\ config[Len(config)].call = "scan"
    /\ \A i \in DOMAIN config :
          config[i].call \in {"setup_pyramid", "setup_routes"} =>
              /\ \A c \in {"set_authentication_policy",
                           "set_authorization_policy", "add_static_view"} :
                    \E j \in 1..(i - 1) : config[j].call = c
              /\ \E j \in 1..(i - 1) : config[j] = Made("add_route", "amd_package")
              /\ \A j \in 1..i : config[j].call # "scan"

\* C8: make_app returned with two or more components registered
C8_Witness ==
    /\ pc = "done"
    /\ Len(components) >= 2

====
